---- MODULE Spec2Model ----
(***************************************************************************)
(* Model of the Reverie backend core:                                      *)
(*   - Persona.move (reverie/backend_server/persona/persona.py), the       *)
(*     per-tick cognitive sequence perceive -> retrieve -> plan ->         *)
(*     reflect -> execute and the scratch fields it writes;                *)
(*   - Maze (reverie/backend_server/maze.py), the tile grid, its event     *)
(*     sets and its read queries.                                          *)
(* Python values are modelled as follows: None is the string "None"       *)
(* (NoneVal) inside event tuples and the empty tuple for a missing         *)
(* datetime or tile; a datetime is <<year, month, day, hour>>; the value   *)
(* False of new_day is the string "False".                                 *)
(***************************************************************************)
EXTENDS Integers, Sequences, FiniteSets, TLC

VARIABLES
    \* ---- Persona ----
    pc,           \* where Persona.move stands: "Idle" or the collaborator call in flight
    scratch,      \* [curr_tile, curr_time]: the Scratch fields move() writes
    new_day,      \* the local new_day of the move() in flight
    calls,        \* the collaborator calls made by the latest move(), in order
    outcome,      \* "none" | "returned" | "raised": how the latest move() ended
    failed_at,    \* the call that raised in the latest move(), or "none"
    args,         \* [tile, time]: the arguments of the latest move()
    prev_time,    \* scratch.curr_time as it was when the latest move() began
    plan_arg,     \* the new_day value handed to plan() by the latest move()
    plan_result,  \* what plan() returned to the latest move()
    ret,          \* what the latest move() returned
    earlier,      \* the move() before the latest one: whether there was one,
                  \* its new_day and the call that raised in it
    \* ---- Maze ----
    tiles,        \* self.tiles: <<x, y>> -> tile record
    address_tiles,\* self.address_tiles: address -> set of <<x, y>>
    config,       \* the configuration files Maze.__init__ read (or NoConfig)
    loaded,       \* "no" | "ok" | "IndexError": how Maze.__init__ ended
    sq_tile_size, \* self.sq_tile_size
    last,         \* the latest Maze call: its name, arguments and result
    prev,         \* the Maze call before it, if it was made on the same tile
                  \* with the same argument and did not raise
    writers,      \* the two threads inside an event method: each one's call,
                  \* its position in the method body and its locals
    start_tiles   \* self.tiles as it was when the two threads began

persona_vars == <<pc, scratch, new_day, calls, outcome, failed_at, args,
                  prev_time, plan_arg, plan_result, ret, earlier>>
load_vars == <<config, loaded, sq_tile_size>>
conc_vars == <<writers, start_tiles>>
maze_vars == <<tiles, address_tiles, last, prev, config, loaded, sq_tile_size,
               writers, start_tiles>>
vars == <<pc, scratch, new_day, calls, outcome, failed_at, args,
          prev_time, plan_arg, plan_result, ret, earlier, tiles, address_tiles,
          last, prev, config, loaded, sq_tile_size, writers, start_tiles>>

-----------------------------------------------------------------------------
(* Persona.move                                                            *)

\* A missing datetime (scratch.curr_time is None) and a missing tile.
NoTime == <<>>
NoTile == <<>>

\* The datetimes move() is called with: <<year, month, day, hour>>.
\* 2017-01-01 and 2023-01-01 are both Sundays; 2017-01-08 is the Sunday after.
Times ==
    { <<2017, 1, 1, 8>>, <<2017, 1, 1, 20>>, <<2017, 1, 2, 8>>,
      <<2017, 1, 8, 8>>, <<2023, 1, 1, 8>>,  <<2023, 1, 2, 8>> }

\* The tiles move() is called with.
Positions == { <<0, 0>>, <<1, 1>> }

\* What plan() and execute() may return (opaque to move()).
Plans == { "sleep", "chat" }
Actions == { "stay", "walk" }

\* datetime.toordinal(): days since 0001-01-01 (proleptic Gregorian), day 1 first.
IsLeap(y) == (y % 4 = 0) /\ ((y % 100 # 0) \/ (y % 400 = 0))

DaysInMonth(y, m) ==
    IF m = 2 THEN (IF IsLeap(y) THEN 29 ELSE 28)
    ELSE IF m \in {4, 6, 9, 11} THEN 30 ELSE 31

RECURSIVE DaysBeforeMonth(_, _)
DaysBeforeMonth(y, m) ==
    IF m = 1 THEN 0 ELSE DaysBeforeMonth(y, m - 1) + DaysInMonth(y, m - 1)

DaysBeforeYear(y) ==
    ((y - 1) * 365) + ((y - 1) \div 4) - ((y - 1) \div 100) + ((y - 1) \div 400)

ToOrdinal(t) == DaysBeforeYear(t[1]) + DaysBeforeMonth(t[1], t[2]) + t[3]

\* datetime.weekday(): Monday is 0, Sunday is 6.
Weekday(t) == (ToOrdinal(t) + 6) % 7

\* t.strftime("%A %B %d"): weekday name, month name, day of month; no year.
\* The three fields determine the string and the string determines them.
strftime_A_B_d(t) == <<Weekday(t), t[2], t[3]>>

\* persona.py 89-95: the new_day local of move().
DetectNewDay(stored, curr_time) ==
    IF stored = NoTime THEN "First day"
    ELSE IF strftime_A_B_d(stored) # strftime_A_B_d(curr_time) THEN "New day"
    ELSE "False"

\* No move() before the latest one.
NoEarlier == [started |-> FALSE, new_day |-> "none", failed_at |-> "none"]

PersonaInit ==
    /\ pc = "Idle"
    /\ scratch \in [curr_tile : {NoTile}, curr_time : {NoTime} \cup Times]
    /\ new_day = "False"
    /\ calls = <<>>
    /\ outcome = "none"
    /\ failed_at = "none"
    /\ args = [tile |-> NoTile, time |-> NoTime]
    /\ prev_time = NoTime
    /\ plan_arg = "none"
    /\ plan_result = "none"
    /\ ret = "none"
    /\ earlier = NoEarlier

\* The latest move(), as the move() before the one that begins now.
AsEarlier ==
    IF args.time = NoTime THEN NoEarlier
    ELSE [started |-> TRUE, new_day |-> new_day, failed_at |-> failed_at]

\* Move without line 97: the new time is not stored in scratch.curr_time.
Move_TimeNotStored(curr_tile, curr_time) ==
    /\ pc = "Idle"
    /\ args' = [tile |-> curr_tile, time |-> curr_time]
    /\ prev_time' = scratch.curr_time
    /\ earlier' = AsEarlier
    /\ new_day' = DetectNewDay(scratch.curr_time, curr_time)
    /\ scratch' = [scratch EXCEPT !.curr_tile = curr_tile]
    /\ pc' = "perceive"
    /\ calls' = <<"perceive">>
    /\ outcome' = "none"
    /\ failed_at' = "none"
    /\ plan_arg' = "none"
    /\ plan_result' = "none"
    /\ ret' = "none"
    /\ UNCHANGED maze_vars

\* move(maze, personas, curr_tile, curr_time) up to and including the call of
\* perceive(): lines 86-100.
Move(curr_tile, curr_time) ==
    /\ pc = "Idle"
    /\ args' = [tile |-> curr_tile, time |-> curr_time]
    /\ prev_time' = scratch.curr_time
    /\ earlier' = AsEarlier
    /\ new_day' = DetectNewDay(scratch.curr_time, curr_time)
    /\ scratch' = [curr_tile |-> curr_tile, curr_time |-> curr_time]
    /\ pc' = "perceive"
    /\ calls' = <<"perceive">>
    /\ outcome' = "none"
    /\ failed_at' = "none"
    /\ plan_arg' = "none"
    /\ plan_result' = "none"
    /\ ret' = "none"
    /\ UNCHANGED maze_vars

\* perceive() returns; retrieve(perceived) is called: line 101.
PerceiveReturns ==
    /\ pc = "perceive"
    /\ pc' = "retrieve"
    /\ calls' = Append(calls, "retrieve")
    /\ UNCHANGED <<scratch, new_day, outcome, failed_at, args, prev_time, earlier,
                   plan_arg, plan_result, ret>>
    /\ UNCHANGED maze_vars

\* retrieve() returns; plan(maze, personas, new_day, retrieved) is called: line 102.
RetrieveReturns ==
    /\ pc = "retrieve"
    /\ pc' = "plan"
    /\ calls' = Append(calls, "plan")
    /\ plan_arg' = new_day
    /\ UNCHANGED <<scratch, new_day, outcome, failed_at, args, prev_time, earlier,
                   plan_result, ret>>
    /\ UNCHANGED maze_vars

\* PlanReturns with line 103 missing: execute() is called right after plan().
PlanReturns_SkipReflect(p) ==
    /\ pc = "plan"
    /\ plan_result' = p
    /\ pc' = "execute"
    /\ calls' = Append(calls, "execute")
    /\ UNCHANGED <<scratch, new_day, outcome, failed_at, args, prev_time, earlier,
                   plan_arg, ret>>
    /\ UNCHANGED maze_vars

\* plan() returns p; reflect() is called: lines 102-103.
PlanReturns(p) ==
    /\ pc = "plan"
    /\ plan_result' = p
    /\ pc' = "reflect"
    /\ calls' = Append(calls, "reflect")
    /\ UNCHANGED <<scratch, new_day, outcome, failed_at, args, prev_time, earlier,
                   plan_arg, ret>>
    /\ UNCHANGED maze_vars

\* reflect() returns; execute(maze, personas, plan_result) is called: line 105.
ReflectReturns ==
    /\ pc = "reflect"
    /\ pc' = "execute"
    /\ calls' = Append(calls, "execute")
    /\ UNCHANGED <<scratch, new_day, outcome, failed_at, args, prev_time, earlier,
                   plan_arg, plan_result, ret>>
    /\ UNCHANGED maze_vars

\* execute() returns a; move() returns it: line 105.
ExecuteReturns(a) ==
    /\ pc = "execute"
    /\ pc' = "Idle"
    /\ outcome' = "returned"
    /\ ret' = a
    /\ UNCHANGED <<scratch, new_day, calls, failed_at, args, prev_time, earlier,
                   plan_arg, plan_result>>
    /\ UNCHANGED maze_vars

\* CollaboratorRaises with the exception caught and ignored inside move(): the
\* sequence goes on with the next call (or returns, after execute).
CollaboratorRaises_Swallowed ==
    /\ pc # "Idle"
    /\ failed_at' = pc
    /\ pc' = CASE pc = "perceive" -> "retrieve"
              [] pc = "retrieve" -> "plan"
              [] pc = "plan" -> "reflect"
              [] pc = "reflect" -> "execute"
              [] OTHER -> "Idle"
    /\ calls' = IF pc' = "Idle" THEN calls ELSE Append(calls, pc')
    /\ outcome' = IF pc' = "Idle" THEN "returned" ELSE outcome
    /\ plan_arg' = IF pc' = "plan" THEN new_day ELSE plan_arg
    /\ UNCHANGED <<scratch, new_day, args, prev_time, earlier, plan_result, ret>>
    /\ UNCHANGED maze_vars

\* CollaboratorRaises with the scratch time written by line 97 rolled back.
CollaboratorRaises_RolledBack ==
    /\ pc # "Idle"
    /\ failed_at' = pc
    /\ pc' = "Idle"
    /\ outcome' = "raised"
    /\ scratch' = [scratch EXCEPT !.curr_time = prev_time]
    /\ UNCHANGED <<new_day, calls, args, prev_time, earlier,
                   plan_arg, plan_result, ret>>
    /\ UNCHANGED maze_vars

\* The collaborator call in flight raises. move() has no try/except/finally
\* (lines 78-105), so the exception leaves move() at once: no later line runs
\* and nothing that was written is undone.
CollaboratorRaises ==
    /\ pc # "Idle"
    /\ failed_at' = pc
    /\ pc' = "Idle"
    /\ outcome' = "raised"
    /\ UNCHANGED <<scratch, new_day, calls, args, prev_time, earlier,
                   plan_arg, plan_result, ret>>
    /\ UNCHANGED maze_vars

PersonaNext ==
    \/ \E curr_tile \in Positions, curr_time \in Times : Move(curr_tile, curr_time)
    \/ PerceiveReturns
    \/ RetrieveReturns
    \/ \E p \in Plans : PlanReturns(p)
    \/ ReflectReturns
    \/ \E a \in Actions : ExecuteReturns(a)
    \/ CollaboratorRaises

-----------------------------------------------------------------------------
(* Maze: the configuration that __init__ reads                             *)

\* maze_meta_info.json: maze_width and maze_height (maze.py 34-35).
maze_width == 3
maze_height == 2

NoneVal == "None"

\* special_blocks/*.csv: world name and the code -> name tables (maze.py 48-55).
world_block == "Town"
sector_blocks == [c \in {"1"} |-> "park"]
arena_blocks == [c \in {"2"} |-> "bench"]
object_blocks == [c \in {"3", "5"} |-> IF c = "3" THEN "chessboard" ELSE "tree"]
spawn_blocks == [c \in {"4"} |-> "sp-A"]

\* maze/*.csv: the five row-major layers (maze.py 62-69); cell (x, y) is entry
\* y * maze_width + x, counted from 0.  Sector "park" everywhere, arena
\* "bench" and object "chessboard" at (1, 1), object "tree" (no arena) at the
\* last cell, a spawning location at (0, 0), a wall at the end of row 0.
Cells == maze_width * maze_height
LastCell == Cells - 1
BenchCell == maze_width + 1

sector_raw == [i \in 1..Cells |-> "1"]
arena_raw == [i \in 1..Cells |-> IF i - 1 = BenchCell THEN "2" ELSE "0"]
object_raw ==
    [i \in 1..Cells |->
        IF i - 1 = BenchCell THEN "3" ELSE IF i - 1 = LastCell THEN "5" ELSE "0"]
spawn_raw == [i \in 1..Cells |-> IF i = 1 THEN "4" ELSE "0"]
collision_raw == [i \in 1..Cells |-> IF i = maze_width THEN "1" ELSE "0"]

\* dict.get(code, ""): an unmapped code resolves to the empty string.
BlockGet(blocks, code) == IF code \in DOMAIN blocks THEN blocks[code] ELSE ""

\* maze.py 94-99: world:sector:arena:game_object of a tile.
ObjPath(t) ==
    t.world \o ":" \o t.sector \o ":" \o t.arena \o ":" \o t.game_object

\* The idle event of a subject: (subject, None, None, None).
IdleOf(subject) == <<subject, NoneVal, NoneVal, NoneVal>>

\* The largest sq_tile_size configured (maze.py 36).
MaxTileSize == 3

\* The configuration the event ledger, the queries and the Persona run on.
DefaultConfig ==
    [ maze_width |-> maze_width, maze_height |-> maze_height,
      sq_tile_size |-> MaxTileSize,
      collision_raw |-> collision_raw, sector_raw |-> sector_raw,
      arena_raw |-> arena_raw, object_raw |-> object_raw,
      spawn_raw |-> spawn_raw ]

\* LoadTile with the initial event named by the object alone, not by obj_path.
LoadTile_ShortSubject(cfg, x, y) ==
    LET idx == (y * cfg.maze_width) + x
        base == [ world |-> world_block,
                  sector |-> BlockGet(sector_blocks, cfg.sector_raw[idx + 1]),
                  arena |-> BlockGet(arena_blocks, cfg.arena_raw[idx + 1]),
                  game_object |-> BlockGet(object_blocks, cfg.object_raw[idx + 1]),
                  spawning_location |-> BlockGet(spawn_blocks, cfg.spawn_raw[idx + 1]),
                  collision |-> (cfg.collision_raw[idx + 1] # "0"),
                  events |-> {} ]
    IN  IF base.game_object # ""
        THEN [base EXCEPT !.events = {IdleOf(base.game_object)}]
        ELSE base

\* maze.py 80-100: the tile __init__ builds for cell (x, y) of configuration cfg.
LoadTile(cfg, x, y) ==
    LET idx == (y * cfg.maze_width) + x
        base == [ world |-> world_block,
                  sector |-> BlockGet(sector_blocks, cfg.sector_raw[idx + 1]),
                  arena |-> BlockGet(arena_blocks, cfg.arena_raw[idx + 1]),
                  game_object |-> BlockGet(object_blocks, cfg.object_raw[idx + 1]),
                  spawning_location |-> BlockGet(spawn_blocks, cfg.spawn_raw[idx + 1]),
                  collision |-> (cfg.collision_raw[idx + 1] # "0"),
                  events |-> {} ]
    IN  IF base.game_object # ""
        THEN [base EXCEPT !.events = {IdleOf(ObjPath(base))}]
        ELSE base

\* maze.py 80-100: the tile built for cell (x, y).
BuildTile(x, y) == LoadTile(DefaultConfig, x, y)

\* _index_tile_addresses with the arena and object keys nested under the
\* sector test: a tile without a sector is indexed under no address.
IndexKeys_NestedUnderSector(t) ==
    (IF t.sector # ""
     THEN {t.world \o ":" \o t.sector}
          \cup (IF t.arena # ""
                THEN {t.world \o ":" \o t.sector \o ":" \o t.arena} ELSE {})
          \cup (IF t.game_object # "" THEN {ObjPath(t)} ELSE {})
     ELSE {})
    \cup (IF t.spawning_location # ""
          THEN {"<spawn_loc>" \o t.spawning_location} ELSE {})

\* maze.py 111-126: the address keys under which the tile t is indexed.
IndexKeys(t) ==
    (IF t.sector # "" THEN {t.world \o ":" \o t.sector} ELSE {})
    \cup (IF t.arena # ""
          THEN {t.world \o ":" \o t.sector \o ":" \o t.arena} ELSE {})
    \cup (IF t.game_object # "" THEN {ObjPath(t)} ELSE {})
    \cup (IF t.spawning_location # ""
          THEN {"<spawn_loc>" \o t.spawning_location} ELSE {})

\* maze.py 74-106: self.tiles for configuration cfg, a list of maze_height
\* rows of maze_width tiles.  Python's tiles[y][x] is tiles[y + 1][x + 1] here.
LoadedTiles(cfg) ==
    [row \in 1..cfg.maze_height |->
        [col \in 1..cfg.maze_width |-> LoadTile(cfg, col - 1, row - 1)]]

\* maze.py 75, 103, 111-126: self.address_tiles for configuration cfg.  A
\* defaultdict holds a key once a coordinate was added under it.
LoadedAddressTiles(cfg) ==
    LET coords == (0..(cfg.maze_width - 1)) \X (0..(cfg.maze_height - 1))
        keys == UNION { IndexKeys(LoadTile(cfg, c[1], c[2])) : c \in coords }
    IN  [k \in keys |-> { c \in coords : k \in IndexKeys(LoadTile(cfg, c[1], c[2])) }]

\* maze.py 74-106: self.tiles after construction.
BuiltTiles == LoadedTiles(DefaultConfig)

\* maze.py 75, 103, 111-126: self.address_tiles after construction.
BuiltAddressTiles == LoadedAddressTiles(DefaultConfig)

\* No Maze call made yet.
NoCall ==
    [op |-> "none", tile |-> <<>>, arg |-> <<>>, raised |-> FALSE,
     before |-> {}, result |-> <<>>]

NoPrev == [op |-> "none", before |-> {}]

\* No thread is inside an event method.
NoWriter ==
    [op |-> "none", arg |-> <<>>, tile |-> <<>>, pc |-> "none", cell |-> <<>>,
     todo |-> {}, error |-> "none"]
NoWriters == [w \in {1, 2} |-> NoWriter]

MazeInit ==
    /\ tiles = BuiltTiles
    /\ address_tiles = BuiltAddressTiles
    /\ config = DefaultConfig
    /\ loaded = "ok"
    /\ sq_tile_size = DefaultConfig.sq_tile_size
    /\ last = NoCall
    /\ prev = NoPrev
    /\ writers = NoWriters
    /\ start_tiles = <<>>

-----------------------------------------------------------------------------
(* Maze: tile access and the event operations                              *)

\* Python list indexing seq[i] on a list of n items: an index in [-n, n) is
\* accepted, a negative one counting from the end; any other raises IndexError.
PyIndexOk(n, i) == (0 - n) <= i /\ i < n
PyIndex(n, i) == IF i < 0 THEN n + i ELSE i

\* maze.py 137-139: access_tile(tile) raises IndexError.
AccessRaises(tile) ==
    \/ ~PyIndexOk(Len(tiles), tile[2])
    \/ ~PyIndexOk(Len(tiles[PyIndex(Len(tiles), tile[2]) + 1]), tile[1])

\* maze.py 137-139: the cell <<x, y>> whose tile self.tiles[y][x] is.
AccessPos(tile) ==
    LET row == PyIndex(Len(tiles), tile[2])
    IN  <<PyIndex(Len(tiles[row + 1]), tile[1]), row>>

\* maze.py 137-139: the tile access_tile(tile) returns.
access_tile(tile) == tiles[AccessPos(tile)[2] + 1][AccessPos(tile)[1] + 1]

\* self.tiles with the event set of cell pos replaced.
WithEvents(pos, events) ==
    [tiles EXCEPT ![pos[2] + 1][pos[1] + 1].events = events]

\* events_add that keeps one event per subject: the new event replaces the
\* events of its subject.
events_add_PerSubject(events, event) ==
    { ev \in events : ev[1] # event[1] } \cup {event}

\* maze.py 162: events.add(event).
events_add(events, event) == events \cup {event}

\* events_discard that matches on the subject alone.
events_discard_BySubject(events, event) ==
    events \ { ev \in events : ev[1] = event[1] }

\* maze.py 165: events.discard(event).
events_discard(events, event) == events \ {event}

\* events_turn_idle without line 171: the event is removed and no idle variant
\* is put in its place.
events_turn_idle_NoIdle(events, event) ==
    IF event \in events THEN events \ {event} ELSE events

\* events_turn_idle without line 170: the event stays beside its idle variant.
events_turn_idle_NoRemove(events, event) ==
    IF event \in events
    THEN events \cup {<<event[1], NoneVal, NoneVal, NoneVal>>}
    ELSE events

\* maze.py 169-171: remove the event and add its idle variant, if present.
events_turn_idle(events, event) ==
    IF event \in events
    THEN (events \ {event}) \cup {IdleOf(event[1])}
    ELSE events

\* events_remove_subject that stops after the first event it removes (here the
\* idle one when present, else any one).
events_remove_subject_FirstOnly(events, subject) ==
    LET hits == { ev \in events : ev[1] = subject }
    IN  IF hits = {} THEN events
        ELSE IF <<subject, NoneVal, NoneVal, NoneVal>> \in hits
             THEN events \ {<<subject, NoneVal, NoneVal, NoneVal>>}
             ELSE events \ {CHOOSE ev \in hits : TRUE}

\* maze.py 175-178: remove every event whose first field is the subject.
events_remove_subject(events, subject) ==
    events \ { ev \in events : ev[1] = subject }

\* set.discard(event) raises nothing, whether or not the event is a member
\* (maze.py 165).
discard_raises(events, event) == FALSE

\* The event set of the tile, or {} where access_tile raises (never used then).
EventsAt(tile) == IF AccessRaises(tile) THEN {} ELSE access_tile(tile).events

\* The four calls that write a tile's event set (maze.py 161-178).
EventOps ==
    { "add_event_from_tile", "remove_event_from_tile",
      "turn_event_from_tile_idle", "remove_subject_events_from_tile" }

\* The call that is now the latest one, as the call before the next one.
AsPrev(op, arg, tile) ==
    IF last.op \in EventOps /\ last.tile = tile /\ last.arg = arg /\ ~last.raised
    THEN [op |-> last.op, before |-> last.before]
    ELSE NoPrev

\* A Maze call on a tile's event set: it raises (IndexError out of access_tile,
\* or an error of the set operation) and changes nothing, or replaces the
\* tile's event set by after.
EventCall(op, arg, tile, set_raises, after) ==
    /\ prev' = AsPrev(op, arg, tile)
    /\ UNCHANGED load_vars
    /\ IF AccessRaises(tile) \/ set_raises
       THEN /\ last' = [op |-> op, tile |-> tile, arg |-> arg, raised |-> TRUE,
                        before |-> EventsAt(tile), result |-> <<>>]
            /\ UNCHANGED <<tiles, address_tiles>>
       ELSE /\ tiles' = WithEvents(AccessPos(tile), after)
            /\ last' = [op |-> op, tile |-> tile, arg |-> arg, raised |-> FALSE,
                        before |-> EventsAt(tile), result |-> <<>>]
            /\ UNCHANGED address_tiles

\* maze.py 161-162.
add_event_from_tile(event, tile) ==
    /\ EventCall("add_event_from_tile", event, tile, FALSE,
                 events_add(EventsAt(tile), event))
    /\ UNCHANGED persona_vars
    /\ UNCHANGED conc_vars

\* maze.py 164-165.
remove_event_from_tile(event, tile) ==
    /\ EventCall("remove_event_from_tile", event, tile,
                 discard_raises(EventsAt(tile), event),
                 events_discard(EventsAt(tile), event))
    /\ UNCHANGED persona_vars
    /\ UNCHANGED conc_vars

\* maze.py 167-171: events.remove(event) runs only when event is a member.
turn_event_from_tile_idle(event, tile) ==
    /\ EventCall("turn_event_from_tile_idle", event, tile, FALSE,
                 events_turn_idle(EventsAt(tile), event))
    /\ UNCHANGED persona_vars
    /\ UNCHANGED conc_vars

\* maze.py 173-178: events.remove(ev) runs only on members (of the copy).
remove_subject_events_from_tile(subject, tile) ==
    /\ EventCall("remove_subject_events_from_tile", <<subject>>, tile, FALSE,
                 events_remove_subject(EventsAt(tile), subject))
    /\ UNCHANGED persona_vars
    /\ UNCHANGED conc_vars

\* The subjects and events the calls are made with.
ChessSubject == "Town:park:bench:chessboard"
TreeSubject == "Town:park::tree"
AgentSubject == "Isabella Rodriguez"
Subjects == {ChessSubject, TreeSubject, AgentSubject}

EventPool ==
    { IdleOf(ChessSubject),
      <<ChessSubject, "is", "used", "being played on">>,
      <<AgentSubject, "is", "sleeping", "sleeping in bed">> }

\* The tile arguments of the event calls: the bench cell, the last cell through
\* negative indices, and one cell past the right edge.
TileArgs == { <<1, 1>>, <<-1, -1>>, <<maze_width, 0>> }

MazeNext ==
    \/ \E e \in EventPool, t \in TileArgs : add_event_from_tile(e, t)
    \/ \E e \in EventPool, t \in TileArgs : remove_event_from_tile(e, t)
    \/ \E e \in EventPool, t \in TileArgs : turn_event_from_tile_idle(e, t)
    \/ \E s \in Subjects, t \in TileArgs : remove_subject_events_from_tile(s, t)

-----------------------------------------------------------------------------
(* Maze: read queries                                                      *)

Max(a, b) == IF a >= b THEN a ELSE b
Min(a, b) == IF a <= b THEN a ELSE b

\* len(range(lo, hi)).
RangeLen(lo, hi) == Max(0, hi - lo)

\* get_nearby_tiles with the upper limits one short (x + vision_r for
\* x + vision_r + 1): the last column and row of the square are lost.
get_nearby_tiles_OffByOne(tile, vision_r) ==
    LET x_min == Max(0, tile[1] - vision_r)
        x_max == Min(maze_width, tile[1] + vision_r)
        y_min == Max(0, tile[2] - vision_r)
        y_max == Min(maze_height, tile[2] + vision_r)
        nx == RangeLen(x_min, x_max)
        ny == RangeLen(y_min, y_max)
    IN  [k \in 1..(nx * ny) |-> <<x_min + ((k - 1) \div ny), y_min + ((k - 1) % ny)>>]

\* maze.py 152-159: [(i, j) for i in range(x_min, x_max) for j in range(y_min, y_max)].
get_nearby_tiles(tile, vision_r) ==
    LET x_min == Max(0, tile[1] - vision_r)
        x_max == Min(maze_width, tile[1] + vision_r + 1)
        y_min == Max(0, tile[2] - vision_r)
        y_max == Min(maze_height, tile[2] + vision_r + 1)
        nx == RangeLen(x_min, x_max)
        ny == RangeLen(y_min, y_max)
    IN  [k \in 1..(nx * ny) |-> <<x_min + ((k - 1) \div ny), y_min + ((k - 1) % ny)>>]

\* A call of access_tile(tile) by a reader: maze.py 137-139.
AccessTile(tile) ==
    /\ last' = IF AccessRaises(tile)
               THEN [op |-> "access_tile", tile |-> tile, arg |-> <<>>,
                     raised |-> TRUE, before |-> {}, result |-> <<>>]
               ELSE [op |-> "access_tile", tile |-> tile, arg |-> <<>>,
                     raised |-> FALSE, before |-> {},
                     result |-> <<AccessPos(tile), access_tile(tile)>>]
    /\ prev' = NoPrev
    /\ UNCHANGED <<tiles, address_tiles>>
    /\ UNCHANGED load_vars
    /\ UNCHANGED persona_vars
    /\ UNCHANGED conc_vars

\* A call of get_nearby_tiles(tile, vision_r): maze.py 152-159.
GetNearbyTiles(tile, vision_r) ==
    /\ last' = [op |-> "get_nearby_tiles", tile |-> tile, arg |-> <<vision_r>>,
                raised |-> FALSE, before |-> {},
                result |-> get_nearby_tiles(tile, vision_r)]
    /\ prev' = NoPrev
    /\ UNCHANGED <<tiles, address_tiles>>
    /\ UNCHANGED load_vars
    /\ UNCHANGED persona_vars
    /\ UNCHANGED conc_vars

\* math.ceil(a / b) for integers a and b > 0 (exact while |a| < 2^53, where
\* the float quotient a / b cannot round across an integer).
CeilDiv(a, b) == 0 - ((0 - a) \div b)

\* turn_coordinate_to_tile with floor division (px // sq_tile_size).
turn_coordinate_to_tile_Floor(px) ==
    <<px[1] \div sq_tile_size, px[2] \div sq_tile_size>>

\* maze.py 131-135.
turn_coordinate_to_tile(px) ==
    <<CeilDiv(px[1], sq_tile_size), CeilDiv(px[2], sq_tile_size)>>

\* A call of turn_coordinate_to_tile(px): maze.py 131-135.
TurnCoordinateToTile(px) ==
    /\ last' = [op |-> "turn_coordinate_to_tile", tile |-> px, arg |-> <<>>,
                raised |-> FALSE, before |-> {},
                result |-> turn_coordinate_to_tile(px)]
    /\ prev' = NoPrev
    /\ UNCHANGED <<tiles, address_tiles>>
    /\ UNCHANGED load_vars
    /\ UNCHANGED persona_vars
    /\ UNCHANGED conc_vars

\* The largest vision radius queried.
MaxRadius == 2

\* The pixel coordinates converted: -MaxPixel .. MaxPixel on each axis.
MaxPixel == 6
PixelCoords == ((0 - MaxPixel)..MaxPixel) \X ((0 - MaxPixel)..MaxPixel)

\* The coordinates queried: the grid and a margin of maze_width + 1 columns and
\* maze_height + 1 rows on every side.
QueryCoords ==
    ((0 - (maze_width + 1))..(maze_width + 1))
        \X ((0 - (maze_height + 1))..(maze_height + 1))

QueryNext ==
    \/ \E t \in QueryCoords : AccessTile(t)
    \/ \E t \in QueryCoords, r \in 0..MaxRadius : GetNearbyTiles(t, r)
    \/ \E px \in PixelCoords : TurnCoordinateToTile(px)

-----------------------------------------------------------------------------
(* Maze: construction from a configuration                                 *)

\* No configuration read yet.
NoConfig ==
    [ maze_width |-> 0, maze_height |-> 0, sq_tile_size |-> 0,
      collision_raw |-> <<>>, sector_raw |-> <<>>, arena_raw |-> <<>>,
      object_raw |-> <<>>, spawn_raw |-> <<>> ]

LayerNames ==
    {"collision_raw", "sector_raw", "arena_raw", "object_raw", "spawn_raw"}

\* The configurations Maze() is constructed from.  The grid is maze_width
\* wide and h high; layer l has width * h + d[l] cells.  The bench cell (1, 1)
\* holds arena "bench" and object "chessboard"; with hole it has no sector;
\* with tree the last cell holds the object "tree" (and no arena); with odd
\* the arena layer uses the unmapped code "9" in place of "0".
ConfigOf(h, d, hole, tree, odd) ==
    LET cells == maze_width * h
        bench == maze_width + 1
    IN  [ maze_width |-> maze_width, maze_height |-> h,
          sq_tile_size |-> MaxTileSize,
          collision_raw |->
              [i \in 1..(cells + d["collision_raw"]) |->
                  IF i = maze_width THEN "1" ELSE "0"],
          sector_raw |->
              [i \in 1..(cells + d["sector_raw"]) |->
                  IF hole /\ i - 1 = bench THEN "0" ELSE "1"],
          arena_raw |->
              [i \in 1..(cells + d["arena_raw"]) |->
                  IF i - 1 = bench THEN "2" ELSE IF odd THEN "9" ELSE "0"],
          object_raw |->
              [i \in 1..(cells + d["object_raw"]) |->
                  IF i - 1 = bench THEN "3"
                  ELSE IF tree /\ i = cells THEN "5" ELSE "0"],
          spawn_raw |->
              [i \in 1..(cells + d["spawn_raw"]) |->
                  IF i = 1 THEN "4" ELSE "0"] ]

\* By how many cells a layer is short (-1) or long (1).
LengthDeltas == {-1, 0, 1}

LoadConfigs ==
    { ConfigOf(h, d, hole, tree, odd) :
        h \in {maze_height, maze_height + 1},
        d \in [LayerNames -> LengthDeltas],
        hole \in BOOLEAN, tree \in BOOLEAN, odd \in BOOLEAN }

\* maze.py 77-88: the loop reads entry idx of every layer for idx up to
\* maze_width * maze_height - 1; a layer with fewer entries raises IndexError.
\* Entries past that index are never read.
LoadRaises(cfg) ==
    \E l \in LayerNames : Len(cfg[l]) < cfg.maze_width * cfg.maze_height

\* Maze(maze_name) on the configuration cfg: maze.py 24-106.
Load(cfg) ==
    /\ loaded = "no"
    /\ config' = cfg
    /\ IF LoadRaises(cfg)
       THEN /\ loaded' = "IndexError"
            /\ UNCHANGED <<tiles, address_tiles, sq_tile_size>>
       ELSE /\ loaded' = "ok"
            /\ tiles' = LoadedTiles(cfg)
            /\ address_tiles' = LoadedAddressTiles(cfg)
            /\ sq_tile_size' = cfg.sq_tile_size
    /\ UNCHANGED <<last, prev>>
    /\ UNCHANGED persona_vars
    /\ UNCHANGED conc_vars

\* get_tile_path that leaves out the segments of empty fields.
get_tile_path_SkipEmpty(tile, level) ==
    LET t == access_tile(tile)
        seg(str) == IF str = "" THEN "" ELSE ":" \o str
    IN  IF level = "world" THEN t.world
        ELSE IF level = "sector" THEN t.world \o seg(t.sector)
        ELSE IF level = "arena" THEN t.world \o seg(t.sector) \o seg(t.arena)
        ELSE t.world \o seg(t.sector) \o seg(t.arena) \o seg(t.game_object)

\* maze.py 141-150: get_tile_path(tile, level) where access_tile does not raise.
get_tile_path(tile, level) ==
    LET t == access_tile(tile)
    IN  IF level = "world" THEN t.world
        ELSE IF level = "sector" THEN t.world \o ":" \o t.sector
        ELSE IF level = "arena"
             THEN t.world \o ":" \o t.sector \o ":" \o t.arena
        ELSE t.world \o ":" \o t.sector \o ":" \o t.arena \o ":" \o t.game_object

\* self.address_tiles[address]: the set the lookup returns, the empty set the
\* defaultdict makes for an address never indexed (maze.py 75).
tilesForAddress(address) ==
    IF address \in DOMAIN address_tiles THEN address_tiles[address] ELSE {}

\* self.address_tiles after the lookup self.address_tiles[address]: a
\* defaultdict(set) stores the empty set it makes for a missing key (maze.py 75).
address_tiles_after(address) ==
    IF address \in DOMAIN address_tiles THEN address_tiles
    ELSE address_tiles @@ (address :> {})

\* The lookup self.address_tiles[address] on the constructed Maze.
TilesForAddress(address) ==
    /\ loaded = "ok"
    /\ last' = [op |-> "address_tiles", tile |-> <<>>, arg |-> <<address>>,
                raised |-> FALSE, before |-> {},
                result |-> tilesForAddress(address)]
    /\ prev' = NoPrev
    /\ address_tiles' = address_tiles_after(address)
    /\ UNCHANGED tiles
    /\ UNCHANGED load_vars
    /\ UNCHANGED persona_vars
    /\ UNCHANGED conc_vars

\* The arena-level address of the bench tile: indexed by the configurations
\* that have the bench, never indexed by the others.
ScenarioAddress == "Town:park:bench"

\* The addresses looked up between event calls: that of the bench tile, and
\* the arena-level address of a tile with a sector and no arena.
LookupAddresses == { ScenarioAddress, "Town:park:" }

\* A call of get_tile_path(tile, level) on the constructed Maze.
GetTilePath(tile, level) ==
    /\ loaded = "ok"
    /\ last' = IF AccessRaises(tile)
               THEN [op |-> "get_tile_path", tile |-> tile, arg |-> <<level>>,
                     raised |-> TRUE, before |-> {}, result |-> <<>>]
               ELSE [op |-> "get_tile_path", tile |-> tile, arg |-> <<level>>,
                     raised |-> FALSE, before |-> {},
                     result |-> <<get_tile_path(tile, level)>>]
    /\ prev' = NoPrev
    /\ UNCHANGED <<tiles, address_tiles>>
    /\ UNCHANGED load_vars
    /\ UNCHANGED persona_vars
    /\ UNCHANGED conc_vars

Levels == {"world", "sector", "arena", "game_object"}

\* The coordinates get_tile_path is called with: every cell of the largest
\* grid configured, and one coordinate left of and above the grid.
PathCoords ==
    ((0..(maze_width - 1)) \X (0..maze_height)) \cup {<<-1, -1>>}

LoadInit ==
    /\ tiles = <<>>
    /\ address_tiles = <<>>
    /\ config = NoConfig
    /\ loaded = "no"
    /\ sq_tile_size = 0
    /\ last = NoCall
    /\ prev = NoPrev
    /\ writers = NoWriters
    /\ start_tiles = <<>>

LoadNext ==
    \/ \E cfg \in LoadConfigs : Load(cfg)
    \/ \E t \in PathCoords, level \in Levels : GetTilePath(t, level)
    \/ TilesForAddress(ScenarioAddress)

-----------------------------------------------------------------------------
(* Maze: event calls mixed with read queries                               *)

\* The pixel coordinate converted between event calls.
LedgerPixel == <<4, -3>>

\* The tiles written in the mixed runs: the bench tile, and the last tile
\* addressed from the end.
LedgerTiles == { <<1, 1>>, <<-1, -1>> }

\* The event calls of the mixed runs.
LedgerWrites ==
    \E event \in EventPool, tile \in LedgerTiles :
        \/ add_event_from_tile(event, tile)
        \/ remove_event_from_tile(event, tile)
        \/ turn_event_from_tile_idle(event, tile)
        \/ remove_subject_events_from_tile(event[1], tile)

\* The read queries made between event calls.
LedgerReads ==
    \/ \E t \in TileArgs : AccessTile(t)
    \/ \E t \in TileArgs : GetNearbyTiles(t, 1)
    \/ \E t \in TileArgs : GetTilePath(t, "arena")
    \/ \E address \in LookupAddresses : TilesForAddress(address)
    \/ TurnCoordinateToTile(LedgerPixel)

-----------------------------------------------------------------------------
(* Maze: two threads inside the event methods                              *)

\* A thread's steps are the calls an event method makes on the shared list and
\* set objects: access_tile (the two list lookups read lists nothing writes),
\* the in test, set.add, set.discard, set.remove and the set() copy.  Each is
\* one call on a built-in object; what lies between them touches locals only.

\* WriterCell that finds every tile of a row in one dict: the tiles of a row
\* share their events set.
WriterCell_OnePerRow(tile) == <<0, AccessPos(tile)[2]>>

\* maze.py 137-139: the cell whose tile dict the thread holds after access_tile.
WriterCell(tile) == AccessPos(tile)

\* The events set of the tile at a cell, as it is now.
CellEvents(cell) == tiles[cell[2] + 1][cell[1] + 1].events

\* The statement a method goes to once access_tile has returned.
FirstStep(op) ==
    CASE op = "add_event_from_tile" -> "add"
      [] op = "remove_event_from_tile" -> "discard"
      [] op = "turn_event_from_tile_idle" -> "test"
      [] op = "remove_subject_events_from_tile" -> "copy"

WriterDone(w, error) ==
    writers' = [writers EXCEPT ![w].pc = "done", ![w].error = error]

\* self.access_tile(tile): maze.py 162, 165, 168, 174.
WAccess(w) ==
    /\ writers[w].pc = "access"
    /\ IF AccessRaises(writers[w].tile)
       THEN WriterDone(w, "IndexError")
       ELSE writers' = [writers EXCEPT ![w].cell = WriterCell(writers[w].tile),
                                       ![w].pc = FirstStep(writers[w].op)]
    /\ UNCHANGED <<tiles, address_tiles, last, prev, start_tiles>>
    /\ UNCHANGED load_vars
    /\ UNCHANGED persona_vars

\* A step that updates the events set the thread holds and ends the method or
\* goes on to the statement next.
WriterUpdate(w, events, next) ==
    /\ tiles' = WithEvents(writers[w].cell, events)
    /\ writers' = [writers EXCEPT ![w].pc = next]
    /\ UNCHANGED <<address_tiles, last, prev, start_tiles>>
    /\ UNCHANGED load_vars
    /\ UNCHANGED persona_vars

\* A step that raises or only reads: self.tiles stays as it is.
WriterKeeps ==
    /\ UNCHANGED <<tiles, address_tiles, last, prev, start_tiles>>
    /\ UNCHANGED load_vars
    /\ UNCHANGED persona_vars

\* .add(event): maze.py 162.
WAdd(w) ==
    /\ writers[w].pc = "add"
    /\ WriterUpdate(w, events_add(CellEvents(writers[w].cell), writers[w].arg), "done")

\* .discard(event): maze.py 165.
WDiscard(w) ==
    /\ writers[w].pc = "discard"
    /\ WriterUpdate(w, events_discard(CellEvents(writers[w].cell), writers[w].arg),
                    "done")

\* if event in events: maze.py 169.
WTest(w) ==
    /\ writers[w].pc = "test"
    /\ writers' = [writers EXCEPT ![w].pc =
                       IF writers[w].arg \in CellEvents(writers[w].cell)
                       THEN "remove" ELSE "done"]
    /\ WriterKeeps

\* events.remove(event): maze.py 170; KeyError when the event is no longer there.
WRemove(w) ==
    /\ writers[w].pc = "remove"
    /\ IF writers[w].arg \in CellEvents(writers[w].cell)
       THEN WriterUpdate(w, CellEvents(writers[w].cell) \ {writers[w].arg}, "add_idle")
       ELSE WriterDone(w, "KeyError") /\ WriterKeeps

\* events.add((event[0], None, None, None)): maze.py 171.
WAddIdle(w) ==
    /\ writers[w].pc = "add_idle"
    /\ WriterUpdate(w, CellEvents(writers[w].cell) \cup {IdleOf(writers[w].arg[1])},
                    "done")

\* events_copy = set(events): maze.py 175.  todo holds the events of the copy
\* the loop will call remove on, those of the subject.
WCopy(w) ==
    /\ writers[w].pc = "copy"
    /\ LET hits == { ev \in CellEvents(writers[w].cell) : ev[1] = writers[w].arg[1] }
       IN  writers' = [writers EXCEPT ![w].todo = hits,
                                      ![w].pc = IF hits = {} THEN "done" ELSE "loop"]
    /\ WriterKeeps

\* One turn of the loop that reaches events.remove(ev): maze.py 176-178.  A set
\* is iterated in no particular order; KeyError when ev is no longer there.
WLoop(w) ==
    /\ writers[w].pc = "loop"
    /\ \E ev \in writers[w].todo :
           IF ev \in CellEvents(writers[w].cell)
           THEN /\ tiles' = WithEvents(writers[w].cell,
                                       CellEvents(writers[w].cell) \ {ev})
                /\ writers' = [writers EXCEPT
                                   ![w].todo = @ \ {ev},
                                   ![w].pc = IF writers[w].todo = {ev}
                                             THEN "done" ELSE "loop"]
                /\ UNCHANGED <<address_tiles, last, prev, start_tiles>>
                /\ UNCHANGED load_vars
                /\ UNCHANGED persona_vars
           ELSE WriterDone(w, "KeyError") /\ WriterKeeps

\* The event sets the bench tile and the last tile may hold, besides the event
\* construction put there, when the two threads begin.
StartSets ==
    { {}, {<<ChessSubject, "is", "used", "being played on">>}, EventPool }

\* The tile of the first thread, and the tiles of the second: the same tile,
\* another tile, the same other tile addressed from the end, and no tile.
WriterTiles ==
    [ w \in {1, 2} |->
        IF w = 1 THEN { <<1, 1>> }
        ELSE { <<1, 1>>, <<maze_width - 1, maze_height - 1>>, <<maze_width, 0>> } ]

WriterCalls(w) ==
    [ op : EventOps, arg : EventPool, tile : WriterTiles[w], pc : {"access"},
      cell : {<<>>}, todo : {{}}, error : {"none"} ]

ConcInit ==
    /\ address_tiles = BuiltAddressTiles
    /\ config = DefaultConfig
    /\ loaded = "ok"
    /\ sq_tile_size = DefaultConfig.sq_tile_size
    /\ last = NoCall
    /\ prev = NoPrev
    /\ \E bench \in StartSets, far \in StartSets :
           tiles = [BuiltTiles EXCEPT
                        ![2][2].events = @ \cup bench,
                        ![maze_height][maze_width].events = @ \cup far]
    /\ start_tiles = tiles
    /\ \E c1 \in WriterCalls(1), c2 \in WriterCalls(2) :
           writers = [w \in {1, 2} |-> IF w = 1 THEN c1 ELSE c2]

ConcNext ==
    \E w \in {1, 2} :
        \/ WAccess(w)
        \/ WAdd(w)
        \/ WDiscard(w)
        \/ WTest(w)
        \/ WRemove(w)
        \/ WAddIdle(w)
        \/ WCopy(w)
        \/ WLoop(w)

-----------------------------------------------------------------------------
(* Specifications                                                          *)

\* The event ledger: the Maze after construction under any sequence of event calls.
Init == MazeInit /\ PersonaInit /\ scratch.curr_time = NoTime
Next == MazeNext
Spec == Init /\ [][Next]_vars

\* One Persona: any sequence of move() calls, each ending by return or raise.
PersonaSpecInit == MazeInit /\ PersonaInit
PersonaSpecNext == PersonaNext
PersonaSpec == PersonaSpecInit /\ [][PersonaSpecNext]_vars

\* Readers of the Maze as constructed: any sequence of read queries.
QuerySpecInit ==
    /\ tiles = BuiltTiles
    /\ address_tiles = BuiltAddressTiles
    /\ \E size \in 1..MaxTileSize :
           /\ config = [DefaultConfig EXCEPT !.sq_tile_size = size]
           /\ sq_tile_size = size
    /\ loaded = "ok"
    /\ last = NoCall
    /\ prev = NoPrev
    /\ writers = NoWriters
    /\ start_tiles = <<>>
    /\ PersonaInit
    /\ scratch.curr_time = NoTime
QuerySpecNext == QueryNext
QuerySpec == QuerySpecInit /\ [][QuerySpecNext]_vars

\* The event ledger with readers: event calls and read queries in any order.
LedgerSpecInit == Init
LedgerSpecNext == LedgerWrites \/ LedgerReads
LedgerSpec == LedgerSpecInit /\ [][LedgerSpecNext]_vars

\* Two threads, each making one event call, their steps in any order.
ConcSpecInit == ConcInit /\ PersonaInit /\ scratch.curr_time = NoTime
ConcSpecNext == ConcNext
ConcSpec == ConcSpecInit /\ [][ConcSpecNext]_vars

\* Construction: Maze() on any of the configurations, then path queries.
LoadSpecInit == LoadInit /\ PersonaInit /\ scratch.curr_time = NoTime
LoadSpecNext == LoadNext
LoadSpec == LoadSpecInit /\ [][LoadSpecNext]_vars

-----------------------------------------------------------------------------
(* Claims about Persona.move, checked under PersonaSpec                    *)

\* The order the tick is specified to call its collaborators in.  pc names the
\* call in flight: "perceive" is the state Perceiving, and so on.
TickOrder == <<"perceive", "retrieve", "plan", "reflect", "execute">>

TickEdges ==
    { <<"Idle", "perceive">>, <<"perceive", "retrieve">>, <<"retrieve", "plan">>,
      <<"plan", "reflect">>, <<"reflect", "execute">>, <<"execute", "Idle">> }

IsPrefix(s, t) == Len(s) <= Len(t) /\ s = SubSeq(t, 1, Len(s))

\* C1: in a tick in which no collaborator call fails the orchestrator goes
\* Idle -> Perceiving -> Retrieving -> Planning -> Reflecting -> Executing ->
\* Idle.  While a tick is in flight the calls made so far are a non-empty
\* prefix of perceive, retrieve, plan, reflect, execute and the call in flight
\* is the last of them; a tick that returned made exactly those five calls,
\* once each, in that order, whatever plan() returned; and every step that is
\* not a failure follows one edge of the state machine.
C1_TickSequence ==
    /\ [](/\ pc # "Idle" =>
                /\ calls # <<>>
                /\ IsPrefix(calls, TickOrder)
                /\ pc = calls[Len(calls)]
          /\ (pc = "Idle" /\ outcome = "returned") => calls = TickOrder)
    /\ [][(pc' # pc /\ outcome' # "raised") => <<pc, pc'>> \in TickEdges]_vars

\* A tick has returned an action after plan() returned the plan "chat".
C1_Witness ==
    /\ pc = "Idle"
    /\ outcome = "returned"
    /\ plan_result = "chat"
    /\ ret = "walk"
    /\ Len(calls) = 5

\* C2: when a collaborator call fails at step k, the tick ends there: the
\* failure is reported (the tick raises, returns nothing), the failed call is
\* the last call of the tick and no later collaborator was called; a failure
\* in plan leaves reflect and execute uncalled.
C2_FailureShortCircuits ==
    failed_at # "none" =>
        /\ outcome = "raised"
        /\ pc = "Idle"
        /\ ret = "none"
        /\ calls # <<>>
        /\ IsPrefix(calls, TickOrder)
        /\ calls[Len(calls)] = failed_at
        /\ failed_at = "plan" =>
               \A i \in 1..Len(calls) : calls[i] \notin {"reflect", "execute"}

\* A tick failed inside plan().
C2_Witness ==
    /\ outcome = "raised"
    /\ failed_at = "plan"
    /\ calls = <<"perceive", "retrieve", "plan">>

\* The calendar day of a datetime: year, month and day.
CalendarDay(t) == <<t[1], t[2], t[3]>>

\* C3: the day flag the planner receives is FirstDay iff no previous time was
\* stored, NewDay iff a previous time was stored and its calendar day differs
\* from the calendar day of the tick's time, and NoSignal otherwise.
C3_DayFlag ==
    plan_arg # "none" =>
        /\ (plan_arg = "First day") <=> (prev_time = NoTime)
        /\ (plan_arg = "New day") <=>
               (prev_time # NoTime /\ CalendarDay(prev_time) # CalendarDay(args.time))
        /\ (plan_arg = "False") <=>
               (prev_time # NoTime /\ CalendarDay(prev_time) = CalendarDay(args.time))

\* C4: after a tick that failed in a collaborator call the scratch holds the
\* position and time the tick was called with (lines 86 and 97 are not rolled
\* back), and the next tick computes its day flag against that time.
C4_NoRollback ==
    /\ [](outcome = "raised" =>
              /\ scratch.curr_tile = args.tile
              /\ scratch.curr_time = args.time)
    /\ [][(outcome = "raised" /\ pc = "Idle" /\ pc' = "perceive") =>
              /\ prev_time' = args.time
              /\ new_day' = DetectNewDay(args.time, args'.time)]_vars

\* A tick failed after writing a tile and a time that differ from the stored ones.
C4_Witness ==
    /\ outcome = "raised"
    /\ prev_time # NoTime
    /\ prev_time # args.time
    /\ scratch.curr_time = args.time
    /\ scratch.curr_tile = <<1, 1>>

-----------------------------------------------------------------------------
(* Claims about Maze, checked under Spec (event calls) and QuerySpec       *)

\* The coordinate lies in [0, maze_width) x [0, maze_height).
InBounds(c) ==
    /\ 0 <= c[1] /\ c[1] < maze_width
    /\ 0 <= c[2] /\ c[2] < maze_height

\* The event set now at the tile the latest call was made on.
EventsNow == EventsAt(last.tile)

\* C5: for every coordinate outside [0, width) x [0, height), negative ones
\* included, accessTile fails and returns no tile.
C5_OutOfBoundsFails ==
    (last.op = "access_tile" /\ ~InBounds(last.tile)) => last.raised

\* C6 as claimed: addEvent(e, t) followed by removeEvent(e, t) leaves t's
\* event set equal to the set before the add, also when it contained e.
C6_AddRemoveRestores ==
    (last.op = "remove_event_from_tile" /\ ~last.raised
        /\ prev.op = "add_event_from_tile") =>
        EventsNow = prev.before

\* C6 as amended: addEvent(e, t) followed by removeEvent(e, t) leaves t's
\* event set equal to the set before the add when that set did not contain e;
\* when it did, the result is that set without e.
C6_AddRemoveRestoresIfAbsent ==
    (last.op = "remove_event_from_tile" /\ ~last.raised
        /\ prev.op = "add_event_from_tile") =>
        /\ last.arg \notin prev.before => EventsNow = prev.before
        /\ last.arg \in prev.before =>
               /\ EventsNow # prev.before
               /\ EventsNow = prev.before \ {last.arg}

\* An event was added to a non-empty set that did not hold it and removed again.
C6_Witness ==
    /\ last.op = "remove_event_from_tile"
    /\ ~last.raised
    /\ prev.op = "add_event_from_tile"
    /\ prev.before # {}
    /\ last.arg \notin prev.before
    /\ last.arg \in last.before

\* C7: idleEvent(e, t) replaces e, when it is in t's event set, by the idle
\* event of e's subject; leaves the set unchanged when e is absent; and leaves
\* it unchanged when e is itself idle and present.
C7_IdleEvent ==
    (last.op = "turn_event_from_tile_idle" /\ ~last.raised) =>
        LET e == last.arg
            idle == <<e[1], NoneVal, NoneVal, NoneVal>>
        IN  /\ e \in last.before =>
                   EventsNow = (last.before \ {e}) \cup {idle}
            /\ e \notin last.before => EventsNow = last.before
            /\ (e \in last.before /\ e = idle) => EventsNow = last.before

\* A non-idle event that was present has been turned idle.
C7_Witness ==
    /\ last.op = "turn_event_from_tile_idle"
    /\ ~last.raised
    /\ last.arg \in last.before
    /\ last.arg[2] # NoneVal
    /\ last.arg \notin EventsNow
    /\ <<last.arg[1], NoneVal, NoneVal, NoneVal>> \in EventsNow

\* C8: removeSubjectEvents(S, t) leaves exactly the old events whose subject
\* differs from S.
C8_RemoveSubject ==
    (last.op = "remove_subject_events_from_tile" /\ ~last.raised) =>
        EventsNow = { ev \in last.before : ev[1] # last.arg[1] }

\* Two events of the subject were removed and an event of another subject stayed.
C8_Witness ==
    /\ last.op = "remove_subject_events_from_tile"
    /\ ~last.raised
    /\ Cardinality({ ev \in last.before : ev[1] = last.arg[1] }) >= 2
    /\ EventsNow # {}
    /\ EventsNow # last.before

\* C9: addEvent applied twice gives the set it gives applied once; removeEvent
\* of an absent event raises nothing and leaves the set unchanged; membership
\* is by equality of all four fields: an add inserts e beside events that
\* differ from it in any field, a remove takes out e alone.
C9_IdempotentAddAbsentRemove ==
    /\ (last.op = "add_event_from_tile" /\ ~last.raised
            /\ prev.op = "add_event_from_tile") =>
           EventsNow = last.before
    /\ (last.op = "remove_event_from_tile" /\ InBounds(last.tile)
            /\ last.arg \notin last.before) =>
           (~last.raised /\ EventsNow = last.before)
    /\ (last.op = "add_event_from_tile" /\ ~last.raised) =>
           EventsNow = last.before \cup {last.arg}
    /\ (last.op = "remove_event_from_tile" /\ ~last.raised) =>
           EventsNow = last.before \ {last.arg}

\* The same event was added twice in a row to a tile that holds another event
\* of the same subject.
C9_Witness ==
    /\ last.op = "add_event_from_tile"
    /\ ~last.raised
    /\ prev.op = "add_event_from_tile"
    /\ \E ev \in EventsNow : ev # last.arg /\ ev[1] = last.arg[1]

\* The elements of a sequence.
Range(seq) == { seq[i] : i \in 1..Len(seq) }

\* C10: tilesNear(center, r), r >= 0, returns exactly the coordinates of the
\* square [x-r, x+r] x [y-r, y+r] that lie in the grid, each once: it holds
\* the center when the center is in bounds, has at most (2r+1)^2 elements and
\* exactly (2r+1)^2 when the whole square is in the grid.
C10_TilesNear ==
    last.op = "get_nearby_tiles" =>
        LET x == last.tile[1]
            y == last.tile[2]
            r == last.arg[1]
            square == ((x - r)..(x + r)) \X ((y - r)..(y + r))
            side == (2 * r) + 1
        IN  /\ Range(last.result) = { c \in square : InBounds(c) }
            /\ Cardinality(Range(last.result)) = Len(last.result)
            /\ InBounds(last.tile) => last.tile \in Range(last.result)
            /\ Len(last.result) <= side * side
            /\ (\A c \in square : InBounds(c)) => Len(last.result) = side * side

\* A query whose square is clipped by the grid on the left and at the top and
\* still holds its in-bounds center.
C10_Witness ==
    /\ last.op = "get_nearby_tiles"
    /\ last.tile = <<0, 0>>
    /\ last.arg = <<1>>
    /\ Len(last.result) = 4

-----------------------------------------------------------------------------
(* Claims about Maze construction, checked under LoadSpec                  *)

\* The cells of the constructed grid and the tile of a cell.
GridCells == (0..(config.maze_width - 1)) \X (0..(config.maze_height - 1))
TileAt(c) == tiles[c[2] + 1][c[1] + 1]

\* The address of a tile at sector, arena and object granularity, and its
\* key in the spawn namespace.
SectorAddress(t) == t.world \o ":" \o t.sector
ArenaAddress(t) == t.world \o ":" \o t.sector \o ":" \o t.arena
ObjectAddress(t) ==
    t.world \o ":" \o t.sector \o ":" \o t.arena \o ":" \o t.game_object
SpawnKey(t) == "<spawn_loc>" \o t.spawning_location

\* C11 as claimed: after load a tile with a non-empty sector, arena, object or
\* spawn field is indexed under the address of every granularity up to and
\* including that field: a tile with an arena under its sector- and
\* arena-level address, a tile with an object under its sector-, arena- and
\* object-level address, also when an intermediate field is empty.
C11_IndexedAtEveryGranularity ==
    loaded = "ok" =>
        \A c \in GridCells :
            LET t == TileAt(c)
            IN  /\ t.sector # "" => c \in tilesForAddress(SectorAddress(t))
                /\ t.arena # "" =>
                       /\ c \in tilesForAddress(SectorAddress(t))
                       /\ c \in tilesForAddress(ArenaAddress(t))
                /\ t.game_object # "" =>
                       /\ c \in tilesForAddress(SectorAddress(t))
                       /\ c \in tilesForAddress(ArenaAddress(t))
                       /\ c \in tilesForAddress(ObjectAddress(t))
                /\ t.spawning_location # "" => c \in tilesForAddress(SpawnKey(t))

\* C11 as amended: after load a tile is indexed under its sector-level
\* address exactly when its sector is non-empty, under its arena-level address
\* exactly when its arena is non-empty, under its object-level address exactly
\* when its object is non-empty and under its spawn key exactly when its
\* spawn field is non-empty; the address of a granularity keeps the (possibly
\* empty) segments of the coarser fields, and a granularity whose own field is
\* empty gets no entry.
C11_IndexedWhereFieldNonEmpty ==
    loaded = "ok" =>
        \A c \in GridCells :
            LET t == TileAt(c)
            IN  /\ (t.sector # "") <=> (c \in tilesForAddress(SectorAddress(t)))
                /\ (t.arena # "") <=> (c \in tilesForAddress(ArenaAddress(t)))
                /\ (t.game_object # "") <=>
                       (c \in tilesForAddress(ObjectAddress(t)))
                /\ (t.spawning_location # "") <=>
                       (c \in tilesForAddress(SpawnKey(t)))

\* A grid was loaded that has a tile with an arena and no sector, a tile with
\* an object and no arena, and a tile with a spawning location.
C11_Witness ==
    /\ loaded = "ok"
    /\ \E c \in GridCells : TileAt(c).arena # "" /\ TileAt(c).sector = ""
    /\ \E c \in GridCells : TileAt(c).game_object # "" /\ TileAt(c).arena = ""
    /\ \E c \in GridCells : TileAt(c).spawning_location # ""

\* The scenario of the specification: sector "park" on every cell, arena
\* "bench" and object "chessboard" at (1, 1) only, every layer of exact length
\* (3 x 3 for maze_width = 3, maze_height = 2).
ScenarioConfig ==
    ConfigOf(maze_height + 1, [l \in LayerNames |-> 0], FALSE, FALSE, FALSE)

\* C12: for every valid configuration, every tile with a non-empty arena is a
\* member of tilesForAddress(addressOf(t, arena)); in the Town/park/bench
\* scenario the address of (1, 1) at arena level is Town:park:bench and
\* tilesForAddress of it is exactly {(1, 1)}.
C12_ArenaTileIndexed ==
    loaded = "ok" =>
        /\ \A c \in GridCells :
               TileAt(c).arena # "" =>
                   c \in tilesForAddress(get_tile_path(c, "arena"))
        /\ config = ScenarioConfig =>
               /\ get_tile_path(<<1, 1>>, "arena") = "Town:park:bench"
               /\ tilesForAddress("Town:park:bench") = {<<1, 1>>}

\* The scenario grid was loaded and the arena address of (1, 1) was asked for.
C12_Witness ==
    /\ loaded = "ok"
    /\ config = ScenarioConfig
    /\ last.op = "get_tile_path"
    /\ last.tile = <<1, 1>>
    /\ last.arg = <<"arena">>
    /\ ~last.raised

\* C13: immediately after load a tile with a non-empty gameObject holds
\* exactly one event, the idle event whose subject is
\* world:sector:arena:object of the tile, and a tile with an empty gameObject
\* holds none.
C13_InitialEvents ==
    loaded = "ok" =>
        \A c \in GridCells :
            LET t == TileAt(c)
            IN  /\ t.game_object # "" =>
                       t.events = {<<ObjectAddress(t), NoneVal, NoneVal, NoneVal>>}
                /\ t.game_object = "" => t.events = {}

\* A grid was loaded with two object tiles, one of them without an arena.
C13_Witness ==
    /\ loaded = "ok"
    /\ \E c \in GridCells : TileAt(c).game_object # "" /\ TileAt(c).arena = ""
    /\ \E c \in GridCells : TileAt(c).game_object # "" /\ TileAt(c).arena # ""
    /\ \E c \in GridCells : TileAt(c).events = {}

\* C14: load fails whenever one of the five layers has a length different
\* from width * height, shorter or longer, and produces no grid.
C14_SizeMismatchFatal ==
    (loaded # "no"
        /\ \E l \in LayerNames :
               Len(config[l]) # config.maze_width * config.maze_height) =>
        (loaded = "IndexError" /\ tiles = <<>>)

-----------------------------------------------------------------------------
(* Claims about the pixel conversion, checked under QuerySpec              *)

\* C16: coordinateToTile maps each axis of an integer pixel coordinate p to
\* ceil(p / tileSize) on its own: the result on an axis is the least k with
\* k * tileSize >= p, it depends on that axis alone, it is k for the pixel
\* k * tileSize, and it is non-decreasing in the pixel coordinate.
C16_CeilingPerAxis ==
    last.op = "turn_coordinate_to_tile" =>
        \A axis \in {1, 2} :
            LET p == last.tile[axis]
                k == last.result[axis]
            IN  /\ k * sq_tile_size >= p
                /\ (k - 1) * sq_tile_size < p
                /\ p % sq_tile_size = 0 => k * sq_tile_size = p
                /\ \A q \in PixelCoords :
                       /\ q[axis] <= p => turn_coordinate_to_tile(q)[axis] <= k
                       /\ q[axis] >= p => turn_coordinate_to_tile(q)[axis] >= k
                       /\ q[axis] = p => turn_coordinate_to_tile(q)[axis] = k

\* A pixel on a tile boundary on one axis and inside a tile, left of the
\* origin, on the other was converted with a tile size above 1.
C16_Witness ==
    /\ last.op = "turn_coordinate_to_tile"
    /\ sq_tile_size = 2
    /\ last.tile = <<4, -3>>
    /\ last.result = <<2, -1>>

-----------------------------------------------------------------------------
(* Claims about the event ledger as a whole: LedgerSpec and Spec           *)

\* A tile without its event set.
StaticOf(t) ==
    [ world |-> t.world, sector |-> t.sector, arena |-> t.arena,
      game_object |-> t.game_object,
      spawning_location |-> t.spawning_location, collision |-> t.collision ]

\* C15: after load, every sequence of event calls and read queries leaves the
\* world, sector, arena, gameObject, spawningLocation and collision fields of
\* every tile and the ReverseIndex as load built them, and a call changes the
\* event set of no tile but the one an event call was made on.
C15_OnlyEventsOfTheTileChange ==
    /\ [](/\ DOMAIN tiles = 1..maze_height
          /\ \A row \in 1..maze_height :
                 /\ DOMAIN tiles[row] = 1..maze_width
                 /\ \A col \in 1..maze_width :
                        StaticOf(tiles[row][col]) = StaticOf(BuiltTiles[row][col])
          /\ address_tiles = BuiltAddressTiles)
    /\ [][\A row \in 1..maze_height, col \in 1..maze_width :
              tiles'[row][col].events # tiles[row][col].events =>
                  /\ last'.op \in EventOps
                  /\ ~last'.raised
                  /\ AccessPos(last'.tile) = <<col - 1, row - 1>>]_vars

\* C18: idleEvent(e, t) never increases the number of events at t and never
\* changes the set of subjects with an event at t; the number decreases, by
\* one, exactly when e is non-idle and present and the idle event of e's
\* subject is already present.
C18_IdleKeepsSubjects ==
    (last.op = "turn_event_from_tile_idle" /\ ~last.raised) =>
        LET e == last.arg
            idle == <<e[1], NoneVal, NoneVal, NoneVal>>
            n_before == Cardinality(last.before)
            n_now == Cardinality(EventsNow)
            merges == e \in last.before /\ e # idle /\ idle \in last.before
        IN  /\ n_now <= n_before
            /\ { ev[1] : ev \in EventsNow } = { ev[1] : ev \in last.before }
            /\ merges => n_now = n_before - 1
            /\ ~merges => n_now = n_before

\* A non-idle event was turned idle on a tile that already held the idle
\* event of its subject: one event fewer.
C18_Witness ==
    /\ last.op = "turn_event_from_tile_idle"
    /\ ~last.raised
    /\ last.arg \in last.before
    /\ last.arg[2] # NoneVal
    /\ <<last.arg[1], NoneVal, NoneVal, NoneVal>> \in last.before
    /\ Cardinality(EventsNow) = Cardinality(last.before) - 1

-----------------------------------------------------------------------------
(* Claims about sequences of move() calls: PersonaSpec                     *)

\* The latest move() is the first one made on this Persona.
FirstTick == args.time # NoTime /\ ~earlier.started

\* C19: over the move() calls made on one Persona, "First day" is computed in
\* the first call only, and only when no time was stored before it; once a
\* call has started, whether or not a collaborator raised in it, no later
\* call computes "First day" and no later plan() receives it.
C19_FirstDayInFirstTickOnly ==
    /\ new_day = "First day" => (FirstTick /\ prev_time = NoTime)
    /\ (FirstTick /\ prev_time = NoTime) => new_day = "First day"
    /\ plan_arg = "First day" => new_day = "First day"
    /\ earlier.started => (new_day # "First day" /\ plan_arg # "First day")
    /\ args.time # NoTime => scratch.curr_time # NoTime

\* The first move() computed "First day" and failed before plan() returned;
\* the next move() handed its own flag to plan().
C19_Witness ==
    /\ earlier.started
    /\ earlier.new_day = "First day"
    /\ earlier.failed_at \in {"perceive", "retrieve", "plan"}
    /\ plan_arg \in {"False", "New day"}

-----------------------------------------------------------------------------
(* Claims about two threads in the event methods: ConcSpec                 *)

\* A grid with the event set of one cell replaced.
GridWith(grid, cell, events) ==
    [grid EXCEPT ![cell[2] + 1][cell[1] + 1].events = events]

\* The event set an event method leaves when it runs alone.
CallResult(op, events, arg) ==
    CASE op = "add_event_from_tile" -> events_add(events, arg)
      [] op = "remove_event_from_tile" -> events_discard(events, arg)
      [] op = "turn_event_from_tile_idle" -> events_turn_idle(events, arg)
      [] op = "remove_subject_events_from_tile" -> events_remove_subject(events, arg[1])

\* The grid after the call of a thread has run alone on a grid.
RunAlone(grid, w) ==
    IF AccessRaises(w.tile) THEN grid
    ELSE LET cell == WriterCell(w.tile)
         IN  GridWith(grid, cell,
                      CallResult(w.op, grid[cell[2] + 1][cell[1] + 1].events, w.arg))

BothDone == writers[1].pc = "done" /\ writers[2].pc = "done"

DifferentTiles ==
    /\ InBounds(writers[1].tile)
    /\ InBounds(writers[2].tile)
    /\ writers[1].tile # writers[2].tile

\* C17: when two threads run event methods on two different tiles, however
\* their steps interleave, neither raises and the grid they leave is the grid
\* left by the two calls run one after the other, in either order.
C17_DifferentTilesCommute ==
    (BothDone /\ DifferentTiles) =>
        /\ writers[1].error = "none"
        /\ writers[2].error = "none"
        /\ tiles = RunAlone(RunAlone(start_tiles, writers[1]), writers[2])
        /\ tiles = RunAlone(RunAlone(start_tiles, writers[2]), writers[1])

\* Both threads are done on different tiles and each has changed its tile: one
\* turned an event idle, the other removed the events of a subject.
C17_Witness ==
    /\ BothDone
    /\ DifferentTiles
    /\ writers[1].op = "turn_event_from_tile_idle"
    /\ writers[2].op = "remove_subject_events_from_tile"
    /\ tiles[2][2].events # start_tiles[2][2].events
    /\ tiles[maze_height][maze_width].events
           # start_tiles[maze_height][maze_width].events

====
